---------------------------- MODULE Spec2Model ----------------------------
(***************************************************************************)
(* Road Safety Intervention API (src/main.py): the recommendation engine.  *)
(*                                                                         *)
(*   parse_free_text   free text -> filter candidates                      *)
(*   recommend         merge explicit and parsed filters, rank, trim       *)
(*   rank_interventions  weighted five-factor score, stable sort           *)
(*                                                                         *)
(* Python values are modelled as follows.                                  *)
(*   str            a TLA+ string (a sequence of characters)               *)
(*   Optional[T]    None is {}, a value v is {v}                            *)
(*   dict           a function whose DOMAIN is the set of keys present     *)
(*   float score    an exact fraction [num, den] in units of 1/10000; the  *)
(*                  value round(score, 4) is an integer number of such     *)
(*                  units (10000 is 1.0)                                    *)
(***************************************************************************)
EXTENDS Integers, Sequences, FiniteSets, TLC

\* ------------------------------------------------------------------ bounds
MaxDocs == 3        \* stored interventions in the small specifications
MaxIssues == 2      \* labels in a filter's issues list
MaxEnvs == 1        \* labels in a filter's environments list
MaxTokens == 2      \* tokens of a generated prompt
MaxStored == 52     \* stored interventions when top_k is exercised
WideCount == 4001   \* distinct labels of a very long environments filter

\* ------------------------------------------------------- Python primitives
None == {}
Some(v) == {v}
Val(opt) == CHOOSE v \in opt : TRUE

Min(a, b) == IF a <= b THEN a ELSE b
Max(a, b) == IF a >= b THEN a ELSE b

Ch(s, i) == SubSeq(s, i, i)

\* d.get(k, default)
DictGet(d, k, default) == IF k \in DOMAIN d THEN d[k] ELSE default

\* str.isspace() on one character
IsSpace(c) == c \in {" ", "\t", "\n"}

UpperAlpha == "ABCDEFGHIJKLMNOPQRSTUVWXYZ"
LowerAlpha == "abcdefghijklmnopqrstuvwxyz"

UpperChars == {Ch(UpperAlpha, i) : i \in 1..Len(UpperAlpha)}

LowerMap ==
    [c \in UpperChars |->
        Ch(LowerAlpha, CHOOSE j \in 1..Len(UpperAlpha) : Ch(UpperAlpha, j) = c)]

LowerChar(c) == IF c \in UpperChars THEN LowerMap[c] ELSE c

\* str.lower()
RECURSIVE Lower(_)
Lower(s) == IF s = "" THEN "" ELSE LowerChar(Ch(s, 1)) \o Lower(Tail(s))

RECURSIVE LStrip(_)
LStrip(s) == IF s # "" /\ IsSpace(Ch(s, 1)) THEN LStrip(Tail(s)) ELSE s

RECURSIVE RStrip(_)
RStrip(s) ==
    IF s # "" /\ IsSpace(Ch(s, Len(s))) THEN RStrip(SubSeq(s, 1, Len(s) - 1)) ELSE s

\* str.strip()
Strip(s) == RStrip(LStrip(s))

\* sub in s
Contains(s, sub) ==
    \E i \in 1..(Len(s) - Len(sub) + 1) : SubSeq(s, i, i + Len(sub) - 1) = sub

\* s.replace(old, new), old non-empty: left to right, non-overlapping
RECURSIVE Replace(_, _, _)
Replace(s, old, new) ==
    IF Len(s) < Len(old) THEN s
    ELSE IF SubSeq(s, 1, Len(old)) = old
         THEN new \o Replace(SubSeq(s, Len(old) + 1, Len(s)), old, new)
         ELSE Ch(s, 1) \o Replace(Tail(s), old, new)

\* the first whitespace-free run of s, s not starting with whitespace
RECURSIVE TokenLen(_)
TokenLen(s) == IF s = "" \/ IsSpace(Ch(s, 1)) THEN 0 ELSE 1 + TokenLen(Tail(s))

\* s.split(): the maximal whitespace-free runs, in order
RECURSIVE Split(_)
Split(s) ==
    LET t == LStrip(s)
        n == TokenLen(t)
    IN  IF t = "" THEN <<>>
        ELSE <<SubSeq(t, 1, n)>> \o Split(SubSeq(t, n + 1, Len(t)))

DecimalDigits == "0123456789"

\* "^" stands for U+00B2 SUPERSCRIPT TWO, a character of Unicode category No
\* with Numeric_Type=Digit: str.isdigit() is True for it, int() rejects it.
SuperscriptTwo == "^"

DecimalChars == {Ch(DecimalDigits, i) : i \in 1..Len(DecimalDigits)}

IsDecimalChar(c) == c \in DecimalChars

DigitValue(c) == (CHOOSE i \in 1..Len(DecimalDigits) : Ch(DecimalDigits, i) = c) - 1

\* str.isdigit(): non-empty, every character a digit (decimal or not)
IsDigit(tok) ==
    /\ tok # ""
    /\ \A i \in 1..Len(tok) : IsDecimalChar(Ch(tok, i)) \/ Ch(tok, i) = SuperscriptTwo

\* int(tok) accepts exactly the decimal digits among the isdigit() characters
IntAccepts(tok) == \A i \in 1..Len(tok) : IsDecimalChar(Ch(tok, i))

RECURSIVE IntOf(_)
IntOf(tok) ==
    IF tok = "" THEN 0
    ELSE 10 * IntOf(SubSeq(tok, 1, Len(tok) - 1)) + DigitValue(Ch(tok, Len(tok)))

\* ------------------------------------------------------ program constants
KNOWN_ROAD_TYPES ==
    << "urban arterial", "urban collector", "local street", "rural highway",
       "rural arterial", "expressway", "village road", "residential street",
       "state highway", "national highway" >>

KNOWN_ISSUES ==
    << "speeding", "pedestrian crashes", "rear-end crashes", "run-off-road",
       "head-on", "intersection conflicts", "nighttime visibility", "overtaking",
       "wrong-way", "work zone safety", "bicyclist safety", "school zone safety" >>

KNOWN_ENVIRONMENTS ==
    << "school zone", "market area", "mixed land use", "curve", "intersection",
       "midblock", "work zone", "bridge", "tunnel", "bus stop", "railway crossing" >>

\* WEIGHTS in units of 1/10000
WEIGHTS ==
    [ issues |-> 4500, road_types |-> 2500, environments |-> 2000,
      speed |-> 500, urban_rural |-> 500 ]

ScoreScale == 10000     \* round(score, 4)
SpeedMin == 10
SpeedMax == 130
TopKMin == 1
TopKMax == 50
TopKDefault == 10
MaxRefs == 3

\* ---------------------------------------------------------------- scoring
normalize(text) == Lower(Strip(text))

NormSet(a) == {normalize(a[i]) : i \in 1..Len(a)}

\* mutant: matches counted per position of a, duplicates included
list_overlap_per_position(a, b) ==
    Cardinality({i \in 1..Len(a) : normalize(a[i]) \in NormSet(b)})

list_overlap(a, b) == Cardinality(NormSet(a) \cap NormSet(b))

\* bool(x) of an Optional[str] / Optional[list]: None and the empty value are falsy
TruthyStr(opt) == opt # None /\ Val(opt) # ""
TruthyList(opt) == opt # None /\ Val(opt) # <<>>

speed_in_range(speed_kmh, rng) ==
    IF speed_kmh = None \/ ~TruthyList(rng) \/ Len(Val(rng)) # 2
    THEN FALSE
    ELSE Val(rng)[1] <= Val(speed_kmh) /\ Val(speed_kmh) <= Val(rng)[2]

\* exact fractions, in units of 1/ScoreScale
Frac(n, d) == [num |-> n, den |-> d]
Zero == Frac(0, 1)
FracAdd(a, b) == Frac(a.num * b.den + b.num * a.den, a.den * b.den)
FracPos(a) == a.num > 0
FracLeq(a, b) == a.num * b.den <= b.num * a.den
FracEq(a, b) == a.num * b.den = b.num * a.den

\* round(score, 4), as a number of 1/ScoreScale units. The float sum differs
\* from the exact one by less than 1e-15, so both round alike unless the exact
\* sum lies midway between two multiples of 1/ScoreScale; there the exact value
\* is rounded to even. No input of the specifications below reaches a midpoint.
PyRound4(a) ==
    LET q == (2 * a.num + a.den) \div (2 * a.den)
        tie == (2 * a.num + a.den) % (2 * a.den) = 0
    IN  IF tie /\ q % 2 = 1 THEN q - 1 ELSE q

NoMatch == [s |-> Zero, reasons |-> <<>>]

\* mutant: the overlap divided by len(issues), duplicates included
IssuesFactorLenDenominator(it, issues) ==
    IF issues # <<>>
    THEN LET overlap == list_overlap(issues, DictGet(it, "issues", <<>>))
         IN  [ s |-> Frac(WEIGHTS.issues * overlap, Len(issues)),
               reasons |-> IF overlap # 0
                           THEN << "Matches issues: " \o ToString(overlap)
                                   \o "/" \o ToString(Len(issues)) >>
                           ELSE <<>> ]
    ELSE NoMatch

\* each factor: what it adds to score, and what it appends to reasons
IssuesFactor(it, issues) ==
    IF issues # <<>>
    THEN LET overlap == list_overlap(issues, DictGet(it, "issues", <<>>))
             n == Cardinality(NormSet(issues))
         IN  IF Len(issues) > 0
             THEN [ s |-> Frac(WEIGHTS.issues * overlap, n),
                    reasons |-> IF overlap # 0
                                THEN << "Matches issues: " \o ToString(overlap)
                                        \o "/" \o ToString(n) >>
                                ELSE <<>> ]
             ELSE NoMatch
    ELSE NoMatch

\* mutant: an unset road_type matches every record that names a road type
RoadTypeFactorWildcard(it, road_type) ==
    IF ~TruthyStr(road_type) /\ DictGet(it, "road_types", <<>>) = <<>> THEN NoMatch
    ELSE IF TruthyStr(road_type)
            /\ list_overlap(<<Val(road_type)>>, DictGet(it, "road_types", <<>>)) = 0
         THEN NoMatch
         ELSE [ s |-> Frac(WEIGHTS.road_types, 1),
                reasons |-> <<"Applicable to specified road type">> ]

RoadTypeFactor(it, road_type) ==
    IF TruthyStr(road_type)
    THEN LET overlap == list_overlap(<<Val(road_type)>>, DictGet(it, "road_types", <<>>))
         IN  IF overlap # 0
             THEN [ s |-> Frac(WEIGHTS.road_types, 1),
                    reasons |-> <<"Applicable to specified road type">> ]
             ELSE NoMatch
    ELSE NoMatch

\* mutant: the reason appended without the `if overlap` test
EnvironmentFactorAlwaysReason(it, environments) ==
    IF environments # <<>>
    THEN LET overlap == list_overlap(environments, DictGet(it, "environments", <<>>))
             n == Cardinality(NormSet(environments))
         IN  [ s |-> Frac(WEIGHTS.environments * overlap, n),
               reasons |-> <<"Suitable for the described environment">> ]
    ELSE NoMatch

EnvironmentFactor(it, environments) ==
    IF environments # <<>>
    THEN LET overlap == list_overlap(environments, DictGet(it, "environments", <<>>))
             n == Cardinality(NormSet(environments))
         IN  IF Len(environments) > 0
             THEN [ s |-> Frac(WEIGHTS.environments * overlap, n),
                    reasons |-> IF overlap # 0
                                THEN <<"Suitable for the described environment">>
                                ELSE <<>> ]
             ELSE NoMatch
    ELSE NoMatch

\* mutant: a record without a speed range suits every speed
SpeedFactorNoRange(it, speed_kmh) ==
    IF speed_kmh # None
       /\ (~TruthyList(DictGet(it, "suitable_speed_range", None))
           \/ speed_in_range(speed_kmh, DictGet(it, "suitable_speed_range", None)))
    THEN [ s |-> Frac(WEIGHTS.speed, 1),
           reasons |-> <<"Effective within given speed range">> ]
    ELSE NoMatch

SpeedFactor(it, speed_kmh) ==
    IF speed_kmh # None /\ TruthyList(DictGet(it, "suitable_speed_range", None))
    THEN IF speed_in_range(speed_kmh, DictGet(it, "suitable_speed_range", None))
         THEN [ s |-> Frac(WEIGHTS.speed, 1),
                reasons |-> <<"Effective within given speed range">> ]
         ELSE NoMatch
    ELSE NoMatch

UrbanRuralFactor(it, urban_rural) ==
    IF TruthyStr(urban_rural) /\ TruthyList(DictGet(it, "urban_rural", None))
    THEN IF normalize(Val(urban_rural)) \in NormSet(Val(it["urban_rural"]))
         THEN [ s |-> Frac(WEIGHTS.urban_rural, 1),
                reasons |-> <<"Designed for the specified context (urban/rural)">> ]
         ELSE NoMatch
    ELSE NoMatch

\* the five factors of one record, in the order the loop body applies them
Factors(it, f) ==
    << IssuesFactor(it, f.issues), RoadTypeFactor(it, f.road_type),
       EnvironmentFactor(it, f.environments), SpeedFactor(it, f.speed_kmh),
       UrbanRuralFactor(it, f.urban_rural) >>

\* score before rounding: score = 0.0, then score += s for each factor
SumOf(fs) ==
    FracAdd(FracAdd(FracAdd(FracAdd(FracAdd(Zero, fs[1].s), fs[2].s), fs[3].s),
                    fs[4].s), fs[5].s)

\* reasons = [], then reasons.append(...) for each factor that matched
ReasonsOf(fs) ==
    fs[1].reasons \o fs[2].reasons \o fs[3].reasons \o fs[4].reasons \o fs[5].reasons

RawScore(it, f) == SumOf(Factors(it, f))

\* {**it, "_score": round(score, 4), "_reasons": reasons}
Scored(it, f) ==
    LET fs == Factors(it, f)
    IN  ("_score" :> PyRound4(SumOf(fs)) @@ "_reasons" :> ReasonsOf(fs)) @@ it

\* mutant: x put in front of the elements with an equal key
RECURSIVE InsertPosTiesFirst(_, _, _)
InsertPosTiesFirst(sorted, x, i) ==
    IF i <= Len(sorted) /\ sorted[i]["_score"] > x["_score"]
    THEN InsertPosTiesFirst(sorted, x, i + 1)
    ELSE i

\* where list.sort(key, reverse=True) puts x among the already ordered `sorted`:
\* behind every element whose key is >= x's key (stable)
RECURSIVE InsertPos(_, _, _)
InsertPos(sorted, x, i) ==
    IF i <= Len(sorted) /\ sorted[i]["_score"] >= x["_score"]
    THEN InsertPos(sorted, x, i + 1)
    ELSE i

InsertAt(s, x, i) == SubSeq(s, 1, i - 1) \o <<x>> \o SubSeq(s, i, Len(s))

\* ranked.sort(key=lambda x: x["_score"], reverse=True)
RECURSIVE SortDesc(_, _)
SortDesc(done, todo) ==
    IF todo = <<>> THEN done
    ELSE SortDesc(InsertAt(done, Head(todo), InsertPos(done, Head(todo), 1)), Tail(todo))

rank_interventions(interventions, f) ==
    SortDesc(<<>>, [i \in 1..Len(interventions) |-> Scored(interventions[i], f)])

\* ------------------------------------------------------- parse_free_text
\* next((rt for rt in KNOWN_ROAD_TYPES if rt in p), None)
FirstRoadType(p) ==
    LET hits == SelectSeq(KNOWN_ROAD_TYPES, LAMBDA rt : Contains(p, rt))
    IN  IF hits = <<>> THEN None ELSE Some(Head(hits))

ParseUrbanRural(p) ==
    IF Contains(p, "urban") THEN Some("urban")
    ELSE IF Contains(p, "rural") THEN Some("rural")
    ELSE None

\* the loop over the tokens from token i on: the speed found, or the
\* ValueError int(token) raises
RECURSIVE ScanSpeed(_, _)
ScanSpeed(tokens, i) ==
    IF i > Len(tokens) THEN [raised |-> FALSE, speed_kmh |-> None]
    ELSE IF IsDigit(tokens[i])
         THEN IF ~IntAccepts(tokens[i]) THEN [raised |-> TRUE, speed_kmh |-> None]
              ELSE IF SpeedMin <= IntOf(tokens[i]) /\ IntOf(tokens[i]) <= SpeedMax
                   THEN [raised |-> FALSE, speed_kmh |-> Some(IntOf(tokens[i]))]
                   ELSE ScanSpeed(tokens, i + 1)
         ELSE ScanSpeed(tokens, i + 1)

SpeedTokens(p) == Split(Replace(p, "km/h", "kmh"))

\* raised: the call ends in an uncaught ValueError and returns nothing
parse_free_text(prompt) ==
    LET p == normalize(prompt)
        scan == ScanSpeed(SpeedTokens(p), 1)
    IN  IF scan.raised THEN [raised |-> TRUE]
        ELSE [ raised |-> FALSE,
               road_type |-> FirstRoadType(p),
               issues |-> SelectSeq(KNOWN_ISSUES, LAMBDA kw : Contains(p, kw)),
               environments |-> SelectSeq(KNOWN_ENVIRONMENTS, LAMBDA kw : Contains(p, kw)),
               speed_kmh |-> scan.speed_kmh,
               urban_rural |-> ParseUrbanRural(p) ]

\* -------------------------------------------------------------- recommend
ListKeys == {"issues", "environments"}

\* mutant: every field merged with the `is None` test
MergeFieldNoneOnly(k, explicit, v) ==
    IF k \notin ListKeys /\ explicit = None THEN v ELSE explicit

\* one round of the merge loop: the value filters[k] holds after it
MergeField(k, explicit, v) ==
    IF (k \in ListKeys /\ explicit = <<>>) \/ (k \notin ListKeys /\ explicit = None)
    THEN v
    ELSE explicit

ExplicitFilters(req) ==
    [ road_type |-> req.road_type, issues |-> req.issues,
      environments |-> req.environments, speed_kmh |-> req.speed_kmh,
      urban_rural |-> req.urban_rural ]

MergeFilters(filters, parsed) ==
    [k \in DOMAIN filters |-> MergeField(k, filters[k], parsed[k])]

\* seq[:k]
PyPrefix(seq, k) ==
    IF k >= 0 THEN SubSeq(seq, 1, Min(k, Len(seq)))
    ELSE SubSeq(seq, 1, Max(0, Len(seq) + k))

\* mutant: no lower clamp
TopKClampNoFloor(top_k) == Min(top_k, TopKMax)

TopKClamp(top_k) == Max(TopKMin, Min(top_k, TopKMax))

\* d["id"] = str(d.pop("_id"))
ConvertId(d) ==
    ("id" :> ToString(d["_id"])) @@ [k \in DOMAIN d \ {"_id"} |-> d[k]]

ResultItem(it) ==
    [ id |-> DictGet(it, "id", None),
      name |-> DictGet(it, "name", None),
      score |-> it["_score"],
      reasons |-> it["_reasons"],
      references |-> PyPrefix(DictGet(it, "references", <<>>), MaxRefs) ]

\* the handler's locals and its response; status 500 is the HTTPException of an
\* unconfigured database or the uncaught ValueError of parse_free_text
recommend(req, dbOK, stored) ==
    LET explicit == ExplicitFilters(req)
        hasPrompt == TruthyStr(req.prompt)
        parsed == parse_free_text(Val(req.prompt))
        failed == ~dbOK \/ (hasPrompt /\ parsed.raised)
        filters == IF hasPrompt /\ ~failed THEN MergeFilters(explicit, parsed) ELSE explicit
        items == [i \in 1..Len(stored) |-> ConvertId(stored[i])]
        ranked == rank_interventions(items, filters)
        top == PyPrefix(ranked, TopKClamp(req.top_k))
    IN  IF failed
        THEN [ status |-> 500, filters |-> explicit, ranked |-> <<>>, items |-> <<>> ]
        ELSE [ status |-> 200, filters |-> filters, ranked |-> ranked,
               items |-> [i \in 1..Len(top) |-> ResultItem(top[i])] ]

\* ------------------------------------------------------------- the store
\* database.create_document / database.get_documents: the collection keeps its
\* documents in insertion order and gives each a fresh _id
CreateDocument(collection, data) ==
    Append(collection, ("_id" :> Len(collection) + 1) @@ data)

GetDocuments(collection) == collection

\* ------------------------------------------------------------------ inputs
EmptyDict == [k \in {} |-> k]
OptKey(k, opt) == IF opt = None THEN EmptyDict ELSE k :> Val(opt)

MkRecord(name, i, r, e, s, u) ==
    ("name" :> name) @@ OptKey("issues", i) @@ OptKey("road_types", r)
    @@ OptKey("environments", e) @@ OptKey("suitable_speed_range", s)
    @@ OptKey("urban_rural", u)

SeqsUpTo(S, n) == UNION {[1..k -> S] : k \in 0..n}

\* records stored through POST /interventions in the small specification
DocPool ==
    { MkRecord("Raised Pedestrian Crossing",
               Some(<<"speeding", "pedestrian crashes">>),
               Some(<<"urban arterial", "local street">>),
               Some(<<"school zone", "midblock">>),
               Some(Some(<<20, 50>>)), Some(Some(<<"urban">>))),
      MkRecord("Rumble Strips",
               Some(<<"run-off-road", "head-on">>),
               Some(<<"rural highway", "Expressway">>),
               Some(<<"curve", "midblock">>),
               Some(Some(<<50, 110>>)), Some(Some(<<"rural">>))),
      MkRecord("Signage", Some(<<>>), Some(<<>>), Some(<<>>), Some(None), Some(None)) }

PromptPool ==
    { None, Some(""), Some("quiet lane"),
      Some("Speeding near a school zone at 40 km/h on a Rural Highway") }

Requests ==
    [ op : {"recommend"},
      prompt : PromptPool,
      road_type : {None, Some(""), Some("Expressway")},
      issues : {<<>>, <<"head-on">>},
      environments : {<<>>, <<"curve">>},
      speed_kmh : {None, Some(0)},
      urban_rural : {None, Some(""), Some("urban")},
      top_k : {2, TopKDefault} ]

\* the collection when top_k is exercised: n documents, alternating two records
StoredRecord(i) ==
    IF i % 2 = 1
    THEN MkRecord("odd", Some(<<"speeding">>), Some(<<"expressway">>), None, None, None)
    ELSE MkRecord("even", Some(<<"head-on">>), Some(<<"local street">>), None, None, None)

RECURSIVE Stored(_)
Stored(n) == IF n = 0 THEN <<>> ELSE CreateDocument(Stored(n - 1), StoredRecord(n))

TopKRequests ==
    [ op : {"recommend"},
      prompt : {None},
      road_type : {None, Some("local street")},
      issues : {<<>>},
      environments : {<<>>},
      speed_kmh : {None},
      urban_rural : {None},
      top_k : {-3, 0, 1, 7, TopKMax - 1, TopKMax, TopKMax + 1, 2 * TopKMax} ]

\* records and filters of direct calls of rank_interventions: every field
\* absent or present, and the malformed shapes of each field
WholeRecords ==
    { MkRecord("r", i, r, e, s, u) :
        i \in {None, Some(<<"Speeding", "pedestrian crashes ">>)},
        r \in {None, Some(<<"Rural Highway ", "expressway">>)},
        e \in {None, Some(<<" Curve", "zone 1">>)},
        s \in {None, Some(Some(<<50, 110>>))},
        u \in {None, Some(Some(<<"Rural", "urban">>))} }

OddRecords ==
    { MkRecord("empty lists", Some(<<>>), Some(<<>>), Some(<<>>), Some(Some(<<>>)),
               Some(Some(<<>>))),
      MkRecord("null optionals", Some(<<"speeding">>), Some(<<"rural highway">>),
               Some(<<"curve">>), Some(None), Some(None)),
      MkRecord("one-element range", Some(<<"speeding">>), None, None,
               Some(Some(<<50>>)), Some(Some(<<"rural">>))),
      MkRecord("three-element range", None, None, Some(<<"tunnel">>),
               Some(Some(<<50, 60, 110>>)), None),
      MkRecord("range above", Some(<<"head-on">>), None, None,
               Some(Some(<<80, 120>>)), Some(Some(<<"urban">>))) }

ScoreRecords == WholeRecords \cup OddRecords

WideRecords ==
    { MkRecord("w", i, None, e, None, None) :
        i \in {Some(<<"speeding">>)},
        e \in {None, Some(<<" Curve", "zone 1">>)} }

IssueLabels == {"speeding", " SPEEDING", "head-on"}
EnvLabels == {"curve", "Tunnel "}

ScoreFilters ==
    [ issues : SeqsUpTo(IssueLabels, MaxIssues),
      road_type : {None, Some("rural highway")},
      environments : SeqsUpTo(EnvLabels, MaxEnvs),
      speed_kmh : {None, Some(70)},
      urban_rural : {None, Some(" rural")} ]

\* a filter whose environments list holds WideCount distinct labels
WideEnvironments == [i \in 1..WideCount |-> "zone " \o ToString(i)]

WideFilters ==
    [ issues : {<<>>, <<"speeding">>},
      road_type : {None},
      environments : {WideEnvironments},
      speed_kmh : {None},
      urban_rural : {None} ]

\* prompts of direct calls of parse_free_text: tokens joined by whitespace
TokenPool == {"9", "10", "040", "130", "131", "40km/h", "km/h", "2" \o SuperscriptTwo, "Urban"}
Separators == {" ", "\t "}

RECURSIVE Join(_, _)
Join(tokens, sep) ==
    IF tokens = <<>> THEN ""
    ELSE IF Len(tokens) = 1 THEN tokens[1]
    ELSE tokens[1] \o sep \o Join(Tail(tokens), sep)

ParsePrompts ==
    { Join(t, sep) : t \in SeqsUpTo(TokenPool, MaxTokens), sep \in Separators }

\* ------------------------------------------------------------------- state
VARIABLES
    db,         \* TRUE when the database is configured (db is not None)
    docs,       \* the intervention collection, in insertion order
    pc,         \* "idle", or "done" when a handler has built its response
    req,        \* the request being answered, or None
    resp,       \* its response (with the handler's locals), or None
    rankArgs,   \* arguments of a direct call of rank_interventions, or None
    rankOut,    \* what that call returned, or None
    prompt,     \* argument of a direct call of parse_free_text, or None
    parsed      \* what that call returned, or None

vars == <<db, docs, pc, req, resp, rankArgs, rankOut, prompt, parsed>>

NoCalls == rankArgs = None /\ rankOut = None /\ prompt = None /\ parsed = None
NoRequest == pc = "idle" /\ req = None /\ resp = None

\* POST /interventions
create_intervention ==
    /\ pc = "idle"
    /\ Len(docs) < MaxDocs
    /\ \E payload \in DocPool :
        /\ req' = Some([op |-> "create", payload |-> payload])
        /\ IF ~db
           THEN /\ resp' = Some([status |-> 500])
                /\ docs' = docs
           ELSE /\ docs' = CreateDocument(docs, payload)
                /\ resp' = Some([status |-> 200, id |-> ToString(Len(docs) + 1)])
    /\ pc' = "done"
    /\ UNCHANGED <<db, rankArgs, rankOut, prompt, parsed>>

\* POST /recommendations, the request drawn from R
Recommend(R) ==
    /\ pc = "idle"
    /\ \E r \in R :
        /\ req' = Some(r)
        /\ resp' = Some(recommend(r, db, GetDocuments(docs)))
    /\ pc' = "done"
    /\ UNCHANGED <<db, docs, rankArgs, rankOut, prompt, parsed>>

\* the response is sent; the next request can be taken
Respond ==
    /\ pc = "done"
    /\ pc' = "idle"
    /\ req' = None
    /\ resp' = None
    /\ UNCHANGED <<db, docs, rankArgs, rankOut, prompt, parsed>>

\* rank_interventions called on one record of Its with a filter of Fs
RankCall(Its, Fs) ==
    /\ rankArgs = None
    /\ \E it \in Its, f \in Fs :
        /\ rankArgs' = Some([it |-> it, f |-> f])
        /\ rankOut' = Some(rank_interventions(<<it>>, f))
    /\ UNCHANGED <<db, docs, pc, req, resp, prompt, parsed>>

\* parse_free_text called on the prompt
ParseCall ==
    /\ prompt # None
    /\ parsed = None
    /\ parsed' = Some(parse_free_text(Val(prompt)))
    /\ UNCHANGED <<db, docs, pc, req, resp, rankArgs, rankOut, prompt>>

\* ---------------------------------------------------------- specifications
\* the service: interventions are stored, recommendations are asked for
Init ==
    /\ db \in BOOLEAN
    /\ docs = <<>>
    /\ NoRequest
    /\ NoCalls

Next ==
    \/ create_intervention
    \/ Recommend(Requests)
    \/ Respond

Spec == Init /\ [][Next]_vars

\* recommendations over a collection of up to MaxStored documents
InitTopK ==
    /\ db \in BOOLEAN
    /\ docs \in IF db THEN {Stored(n) : n \in 0..MaxStored} ELSE {<<>>}
    /\ NoRequest
    /\ NoCalls

NextTopK ==
    \/ Recommend(TopKRequests)
    \/ Respond

SpecTopK == InitTopK /\ [][NextTopK]_vars

\* direct calls of rank_interventions
InitScore ==
    /\ db = TRUE
    /\ docs = <<>>
    /\ NoRequest
    /\ NoCalls

NextScore == RankCall(ScoreRecords, ScoreFilters)

SpecScore == InitScore /\ [][NextScore]_vars

\* the same, very long environments filters included
NextWide ==
    \/ RankCall(ScoreRecords, ScoreFilters)
    \/ RankCall(WideRecords, WideFilters)

SpecWide == InitScore /\ [][NextWide]_vars

\* direct calls of parse_free_text
InitParse ==
    /\ db = TRUE
    /\ docs = <<>>
    /\ NoRequest
    /\ rankArgs = None /\ rankOut = None
    /\ prompt \in {Some(p) : p \in ParsePrompts}
    /\ parsed = None

NextParse == ParseCall

SpecParse == InitParse /\ [][NextParse]_vars

\* ------------------------------------------------------------------ claims
Recommended == resp # None /\ Val(req).op = "recommend" /\ Val(resp).status = 200
Ranked == Val(resp).ranked
Items == Val(resp).items
Merged == Val(resp).filters

\* the position in the input sequence of a ranked record
InputPos(x) == CHOOSE j \in 1..Len(docs) : ToString(docs[j]["_id"]) = x.id

\* C1: the sequence rank_interventions returns is ordered by non-increasing
\* rounded score, and records of equal score keep their input order.
C1_SortedStable ==
    Recommended =>
        \A i, j \in 1..Len(Ranked) :
            i < j =>
                /\ Ranked[i]["_score"] >= Ranked[j]["_score"]
                /\ Ranked[i]["_score"] = Ranked[j]["_score"]
                       => InputPos(Ranked[i]) < InputPos(Ranked[j])

\* three records ranked, two of them tied, and the sort moved a record forward
C1_Witness ==
    /\ Recommended
    /\ Len(Ranked) = 3
    /\ InputPos(Ranked[1]) = 3
    /\ Ranked[2]["_score"] = Ranked[3]["_score"]
    /\ Ranked[1]["_score"] > Ranked[2]["_score"]

HasPrompt == TruthyStr(Val(req).prompt)
ParsedOfRequest == parse_free_text(Val(Val(req).prompt))

\* non-null and non-empty, for a single-valued field (a number is never empty)
ExplicitScalar(k, v) == v # None /\ (k # "speed_kmh" => v # Some(""))

\* C2: with a non-empty prompt, each of road_type, speed_kmh, urban_rural of
\* the merged filter is the explicit value when that is non-null and
\* non-empty, and the parsed value otherwise.
C2_ExplicitNonEmptyWins ==
    (Recommended /\ HasPrompt) =>
        \A k \in {"road_type", "speed_kmh", "urban_rural"} :
            Merged[k] = IF ExplicitScalar(k, Val(req)[k]) THEN Val(req)[k]
                        ELSE ParsedOfRequest[k]

\* C3: with a non-empty prompt, each of issues, environments of the merged
\* filter is the explicit list when that is non-empty and the parsed list
\* otherwise; a keyword in the prompt rules out an empty merged list.
C3_EmptyListTakesParsed ==
    (Recommended /\ HasPrompt) =>
        \A k \in ListKeys :
            /\ Merged[k] = IF Val(req)[k] # <<>> THEN Val(req)[k] ELSE ParsedOfRequest[k]
            /\ ParsedOfRequest[k] # <<>> => Merged[k] # <<>>

\* an empty explicit issues list replaced, an explicit environments list kept
C3_Witness ==
    /\ Recommended /\ HasPrompt
    /\ Val(req).issues = <<>> /\ Merged.issues = <<"speeding">>
    /\ Val(req).environments = <<"curve">> /\ Merged.environments = <<"curve">>
    /\ ParsedOfRequest.environments = <<"school zone">>

\* the arguments and the result of the direct call of rank_interventions
CallIt == Val(rankArgs).it
CallF == Val(rankArgs).f
Out == Val(rankOut)[1]

FactorWeights ==
    << WEIGHTS.issues, WEIGHTS.road_types, WEIGHTS.environments, WEIGHTS.speed,
       WEIGHTS.urban_rural >>

\* C4: the score is between 0 and 1.0: each factor adds between 0 and its
\* weight, and the score is the rounded sum of the five.
C4_ScoreBounds ==
    rankOut # None =>
        LET fs == Factors(CallIt, CallF)
        IN  /\ 0 <= Out["_score"] /\ Out["_score"] <= ScoreScale
            /\ \A i \in 1..5 :
                   /\ FracLeq(Zero, fs[i].s)
                   /\ FracLeq(fs[i].s, Frac(FactorWeights[i], 1))
            /\ Out["_score"] = PyRound4(SumOf(fs))

\* all five factors at their weight: the score is 1.0
C4_Witness ==
    /\ rankOut # None
    /\ Out["_score"] = ScoreScale
    /\ Len(Out["_reasons"]) = 5

\* C5: recommend is rejected for no top_k; it returns
\* min(stored records, min(max(top_k, 1), 50)) items, the leading ones of the
\* ranked sequence, and no omitted record outscores a returned one.
C5_TopKClamped ==
    (resp # None /\ Val(req).op = "recommend") =>
        /\ Val(resp).status = 500 <=> ~db
        /\ Val(resp).status = 200 =>
            /\ Len(Items) = Min(Len(docs), Min(Max(Val(req).top_k, TopKMin), TopKMax))
            /\ \A i \in 1..Len(Items) :
                   /\ Items[i].id = Ranked[i].id
                   /\ Items[i].score = Ranked[i]["_score"]
            /\ \A i \in 1..Len(Items), j \in (Len(Items) + 1)..Len(Ranked) :
                   Ranked[j]["_score"] <= Items[i].score

\* more than 50 records stored and more than 50 asked for: 50 returned, all
\* of them scoring above the omitted ones
C5_Witness ==
    /\ Recommended
    /\ Len(docs) > TopKMax /\ Val(req).top_k > TopKMax
    /\ Len(Items) = TopKMax
    /\ Items[1].score > Ranked[Len(Ranked)]["_score"]

NoFilterSet(f) ==
    /\ f.road_type = None /\ f.issues = <<>> /\ f.environments = <<>>
    /\ f.speed_kmh = None /\ f.urban_rural = None

\* C6: with no filter field set every record scores 0 and the output lists
\* the records in the input order.
C6_NoFilterKeepsOrder ==
    (Recommended /\ NoFilterSet(Merged)) =>
        /\ Len(Ranked) = Len(docs)
        /\ \A i \in 1..Len(Ranked) :
               /\ Ranked[i]["_score"] = 0
               /\ Ranked[i].id = ToString(docs[i]["_id"])

\* three different records ranked with no filter
C6_Witness ==
    /\ Recommended /\ NoFilterSet(Merged)
    /\ Len(Ranked) = 3
    /\ Ranked[1].name # Ranked[2].name /\ Ranked[2].name # Ranked[3].name
    /\ DictGet(Ranked[1], "road_types", <<>>) # <<>>

ListFields == {"issues", "road_types", "environments"}
OptionalFields == {"suitable_speed_range", "urban_rural"}

\* the label sequences and the speed range the record lacks
Lacking(it) ==
    {k \in ListFields : k \notin DOMAIN it}
    \cup {k \in OptionalFields : DictGet(it, k, None) = None}

FactorOf(k, it, f) ==
    CASE k = "issues" -> IssuesFactor(it, f.issues)
      [] k = "road_types" -> RoadTypeFactor(it, f.road_type)
      [] k = "environments" -> EnvironmentFactor(it, f.environments)
      [] k = "suitable_speed_range" -> SpeedFactor(it, f.speed_kmh)
      [] k = "urban_rural" -> UrbanRuralFactor(it, f.urban_rural)

\* the record with field k present and empty
Emptied(it, k) == (k :> IF k \in ListFields THEN <<>> ELSE Some(<<>>)) @@ it

RECURSIVE SetToSeq(_)
SetToSeq(S) ==
    IF S = {} THEN <<>>
    ELSE LET x == CHOOSE y \in S : TRUE IN <<x>> \o SetToSeq(S \ {x})

Canonical(labels) == SetToSeq(NormSet(labels))

ClaimOverlap(labels, it, k) == Cardinality(NormSet(labels) \cap NormSet(DictGet(it, k, <<>>)))

\* C8: a non-empty issues (environments) list adds weight * overlap /
\* distinct_count, both counted over distinct normalized labels;
\* distinct_count is not zero, overlap <= distinct_count, and duplicated or
\* differently-cased filter labels do not change the score.
C8_OverlapOverDistinct ==
    rankOut # None =>
        /\ CallF.issues # <<>> =>
            LET n == Cardinality(NormSet(CallF.issues))
                overlap == ClaimOverlap(CallF.issues, CallIt, "issues")
            IN  /\ n >= 1
                /\ overlap <= n
                /\ FracEq(IssuesFactor(CallIt, CallF.issues).s,
                          Frac(WEIGHTS.issues * overlap, n))
        /\ CallF.environments # <<>> =>
            LET n == Cardinality(NormSet(CallF.environments))
                overlap == ClaimOverlap(CallF.environments, CallIt, "environments")
            IN  /\ n >= 1
                /\ overlap <= n
                /\ FracEq(EnvironmentFactor(CallIt, CallF.environments).s,
                          Frac(WEIGHTS.environments * overlap, n))
        /\ Out["_score"] =
               PyRound4(RawScore(CallIt, [CallF EXCEPT !.issues = Canonical(@),
                                                       !.environments = Canonical(@)]))

\* the same issue twice, in two spellings: counted once, the full weight added
C8_Witness ==
    /\ rankOut # None
    /\ CallF.issues = <<"speeding", " SPEEDING">>
    /\ NoFilterSet([CallF EXCEPT !.issues = <<>>])
    /\ Out["_score"] = WEIGHTS.issues

\* the claim of C9: the first token of decimal digits with a value in
\* [10,130], or None
ClaimSpeed(text) ==
    LET toks == SpeedTokens(normalize(text))
        Q == {i \in 1..Len(toks) :
                /\ toks[i] # "" /\ IntAccepts(toks[i])
                /\ SpeedMin <= IntOf(toks[i]) /\ IntOf(toks[i]) <= SpeedMax}
    IN  IF Q = {} THEN None
        ELSE Some(IntOf(toks[CHOOSE i \in Q : \A j \in Q : i <= j]))

\* C9: parse_free_text sets speed_kmh to the first whitespace-delimited token
\* that consists only of decimal digits and has a value in [10,130]; other
\* tokens are skipped, and speed_kmh is absent when no token qualifies.
C9_FirstQualifyingToken ==
    parsed # None =>
        /\ ~Val(parsed).raised
        /\ Val(parsed).speed_kmh = ClaimSpeed(Val(prompt))

\* C10 as claimed: the reasons list is non-empty if and only if the rounded
\* score is greater than 0.
C10_ReasonsIffRoundedScore ==
    rankOut # None => (Out["_reasons"] # <<>> <=> Out["_score"] > 0)

\* C10, amended: the reasons list is non-empty if and only if the score
\* before rounding is greater than 0, each factor appending its reason exactly
\* when it adds a positive contribution; a rounded score greater than 0 has
\* reasons.
C10_ReasonsIffRawScore ==
    rankOut # None =>
        LET fs == Factors(CallIt, CallF)
        IN  /\ Out["_reasons"] # <<>> <=> \E i \in 1..5 : FracPos(fs[i].s)
            /\ Out["_score"] > 0 => Out["_reasons"] # <<>>
            /\ Out["_reasons"] = ReasonsOf(fs)
            /\ \A i \in 1..5 : fs[i].reasons # <<>> <=> FracPos(fs[i].s)

\* one match among WideCount environments: a reason, and a score rounded to 0
C10_Witness ==
    /\ rankOut # None
    /\ Len(CallF.environments) = WideCount
    /\ Out["_reasons"] = <<"Suitable for the described environment">>
    /\ Out["_score"] = 0
=============================================================================
